---- MODULE Spec2Model ----
(***************************************************************************)
(* bitproto rendering framework: the render entry point, the Renderer's    *)
(* two-phase block emission (src/bitproto/renderer.py) and the Formatter's *)
(* name resolution, case-style and value dispatch                          *)
(* (src/compiler/bitproto/renderer/formatter.py).                          *)
(*                                                                         *)
(* Text is a sequence of one-character strings; a line is such a sequence  *)
(* without "\n".  None is the empty sequence <<>> and a present optional   *)
(* value x is <<x>>.                                                       *)
(***************************************************************************)
EXTENDS Integers, Sequences, FiniteSets, TLC

\* Longest block list a Renderer's blocks() returns in the model.
MaxBlocks == 2

VARIABLES
    lang,         \* render(): argument lang
    proto,        \* render(): argument proto
    outdir,       \* render(): argument outdir (None or a directory)
    pc,           \* position of the render() call
    err,          \* exception that left render(), "none" while there is none
    clss,         \* render(): local clss, the tuple of Renderer classes
    k,            \* render(): index into clss of the current renderer_cls
    outs,         \* render(): local outs
    constructed,  \* Renderer instances constructed so far, in order
    renderer,     \* the current Renderer instance (None before construction)
    blocks,       \* render_string(): local blocks (the Block objects)
    strings,      \* render_string(): local strings
    i,            \* render_string(): position in the running for loop
    calls,        \* log of Block.render()/Block.defer() invocations
    content,      \* Renderer.render(): local content (None before it is set)
    files,        \* the file system: the written paths and their contents
    ndefs,        \* format_definition_name(): the definitions d it is called on
    ncls,         \* format_definition_name(): argument class_ (None or a class)
    nfmt,         \* the Formatter the name is resolved by
    npc,          \* "call" before format_definition_name() ran, "done" after
    nres,         \* what format_definition_name() returned for each of ndefs
    fop,          \* the Formatter method called: format_case_style or format_value
    farg,         \* format_case_style(): argument s; format_type(): argument name
    fcls,         \* format_case_style(): argument class_
    ffmt,         \* the Formatter the method is called on
    fval,         \* format_value(): argument value
    ft,           \* format_type(), get_nbits_of_integer(): argument t
    fc,           \* format_constant_type(): argument c
    fpc,          \* "call" before the method ran, "done" after
    fres,         \* what the method returned or raised
    blk,          \* a Block used on its own
    bdef,         \* BlockForDefinition: the definition's comment_block and lineno
    bdebug,       \* whether the interpreter runs assert statements (no -O)
    bops          \* log of the calls made on blk, with what each returned or raised

rvars == <<lang, proto, outdir, pc, err, clss, k, outs, constructed, renderer,
           blocks, strings, i, calls, content, files>>

nvars == <<ndefs, ncls, nfmt, npc, nres>>

fvars == <<fop, farg, fcls, ffmt, fval, ft, fc, fpc, fres>>

bvars == <<blk, bdef, bdebug, bops>>

vars == <<rvars, nvars, fvars, bvars>>

None == <<>>
Some(x) == <<x>>

-----------------------------------------------------------------------------
(* Text helpers: str.join *)

NL == <<"\n">>

RECURSIVE Join(_, _)
Join(sep, items) ==
    IF items = <<>> THEN <<>>
    ELSE IF Len(items) = 1 THEN items[1]
    ELSE items[1] \o sep \o Join(sep, Tail(items))

Digit == <<"1", "2", "3", "4", "5", "6">>

-----------------------------------------------------------------------------
(* Block *)

RECURSIVE SeqsUpTo(_, _)
SeqsUpTo(S, n) ==
    IF n = 0 THEN {<<>>}
    ELSE LET shorter == SeqsUpTo(S, n - 1)
         IN  shorter \cup {Append(s, x) : s \in {t \in shorter : Len(t) = n - 1}, x \in S}

\* A block method body: the pushes it makes, then the exception it raises.
Completes(ops) == [ops |-> ops, exc |-> "none"]
Raises(ops, exc) == [ops |-> ops, exc |-> exc]

\* Block.defer of the base class: raise NotImplementedError.
BaseDefer == Raises(<<>>, "NotImplementedError")

\* Block.__init__
NewBlock(render, defer) ==
    [strings |-> <<>>, formatter |-> FALSE, ident |-> 0,
     render |-> render, defer |-> defer]

\* Block.set_formatter
set_formatter(b) == [b EXCEPT !.formatter = TRUE]

\* The line the j-th push of block idx writes in the given phase.
LineOf(op, phase, idx, j) ==
    IF op = "empty" THEN <<>> ELSE <<phase, Digit[idx], Digit[j]>>

\* Block.push / push_empty_line, once per op of the method body.
RECURSIVE push_all(_, _, _, _, _)
push_all(strs, ops, phase, idx, j) ==
    IF j > Len(ops) THEN strs
    ELSE push_all(Append(strs, LineOf(ops[j], phase, idx, j)), ops, phase, idx, j + 1)

\* Block.__str__
str(b) == Join(NL, b.strings)

\* Block.clear
clear(b) == [b EXCEPT !.strings = <<>>]

\* A collect that leaves the buffer as it is.
collect_keep(b) == [s |-> str(b), block |-> b]

\* Block.collect: the pair (returned text, block afterwards)
collect(b) == [s |-> str(b), block |-> clear(b)]

\* What a Block method gives: the block afterwards, the exception it raised
\* ("none" when it returned) and the value it returned.
Done(b, ret) == [block |-> b, exc |-> "none", ret |-> ret]
Failed(b, exc) == [block |-> b, exc |-> exc, ret |-> None]

\* Block.formatter with self._formatter None: the assert raises AssertionError
\* (its message is an InternalError object); with asserts stripped (python -O)
\* the property returns None and the method call on it raises AttributeError.
formatter_error(debug) == IF debug THEN "AssertionError" ELSE "AttributeError"

\* Formatter.ident_character (abstract): a space.
ident_character == <<" ">>

\* Formatter.format_comment (abstract): a "#" comment.
format_comment(text) == <<"#">> \o text

\* Formatter.format_token_location: f"@@L{node.lineno}"
format_token_location(node) == <<"@", "@", "L", node.lineno>>

\* ident * self.formatter.ident_character()
RECURSIVE Repeat(_, _)
Repeat(n, w) == IF n <= 0 THEN <<>> ELSE w \o Repeat(n - 1, w)

\* Block.push
push(b, line, ident, debug) ==
    LET id == IF ident = None THEN b.ident ELSE ident[1]
    IN  IF id > 0
        THEN IF b.formatter
             THEN Done([b EXCEPT !.strings =
                            Append(@, Repeat(id, ident_character) \o line)], None)
             ELSE Failed(b, formatter_error(debug))
        ELSE Done([b EXCEPT !.strings = Append(@, line)], None)

\* Block.push_empty_line
push_empty_line(b, debug) == push(b, <<>>, None, debug)

\* Block.push_string
push_string(b, s, separator) ==
    IF b.strings = <<>> THEN Failed(b, "IndexError")
    ELSE Done([b EXCEPT !.strings[Len(b.strings)] = Join(separator, <<@, s>>)], None)

\* BlockForDefinition.render_doc
RECURSIVE render_doc(_, _, _)
render_doc(b, comment_block, debug) ==
    IF comment_block = <<>> THEN Done(b, None)
    ELSE IF ~b.formatter THEN Failed(b, formatter_error(debug))
    ELSE LET pushed == push(b, format_comment(Head(comment_block)), None, debug)
         IN  IF pushed.exc # "none" THEN pushed
             ELSE render_doc(pushed.block, Tail(comment_block), debug)

\* BlockForDefinition.push_location_doc
push_location_doc(b, definition, debug) ==
    IF ~b.formatter THEN Failed(b, formatter_error(debug))
    ELSE LET location_string == format_token_location(definition)
         IN  push_string(b, format_comment(location_string), <<" ">>)

\* The bodies a concrete block's render() may have.
RenderBodies ==
    {Completes(<<>>), Completes(<<"text">>), Completes(<<"text", "text">>),
     Raises(<<>>, "InternalError")}

\* The bodies a block's defer() may have: the base class's, an override that
\* completes, one that fails, and one that pushes and then calls a formatter
\* hook that is not implemented.
DeferBodies ==
    {BaseDefer, Completes(<<>>), Completes(<<"text">>),
     Raises(<<>>, "InternalError"), Raises(<<"text">>, "NotImplementedError")}

BlockSet == {NewBlock(r, d) : r \in RenderBodies, d \in DeferBodies}

BlockLists == SeqsUpTo(BlockSet, MaxBlocks)

-----------------------------------------------------------------------------
(* Registry and Renderer classes *)

\* get_renderer_registry
get_renderer_registry ==
    [c  |-> <<"RendererC", "RendererCHeader">>,
     go |-> <<"RendererGo">>,
     py |-> <<"RendererPy">>]

\* A lookup that falls back to a default renderer for an unknown language.
get_renderer_cls_fallback(l) ==
    IF l \in DOMAIN get_renderer_registry
    THEN Some(get_renderer_registry[l])
    ELSE Some(<<"RendererGo">>)

\* get_renderer_cls: registry.get(lang, None)
get_renderer_cls(l) ==
    IF l \in DOMAIN get_renderer_registry
    THEN Some(get_renderer_registry[l])
    ELSE None

\* file_extension() of the registry's classes that override it elsewhere.
other_file_extension(cls) ==
    CASE cls = "RendererCHeader" -> ".h"
      [] cls = "RendererGo" -> ".go"
      [] cls = "RendererPy" -> ".py"

\* Renderer.file_extension: abstract; RendererC returns ".c".
file_extension(cls) ==
    IF cls = "RendererC" THEN ".c" ELSE other_file_extension(cls)

\* RendererC.blocks: [BlockAheadNotice(), IncludeHeaderFile(header_filename)],
\* each pushing one line in render() and inheriting Block.defer.
RendererC_blocks ==
    <<NewBlock(Completes(<<"text">>), BaseDefer),
      NewBlock(Completes(<<"text">>), BaseDefer)>>

\* Renderer.blocks: abstract; the lists the concrete classes may return.
blocks_of(cls) ==
    IF cls = "RendererC" THEN {RendererC_blocks} ELSE BlockLists

\* os.path.splitext(os.path.basename(filepath))[0]: the file name is kept as
\* its dot-separated pieces; the last piece goes when there is more than one.
splitext_base(filepath) ==
    LET base == filepath.base
    IN  IF Len(base) > 1 THEN SubSeq(base, 1, Len(base) - 1) ELSE base

RECURSIVE Concat(_)
Concat(pieces) ==
    IF pieces = <<>> THEN "" ELSE pieces[1] \o Concat(Tail(pieces))

\* A file name that keeps the extension of the proto's file.
format_out_filename_keep_ext(p, cls) ==
    LET out_base_name ==
            IF p.filepath # None
            THEN Concat(p.filepath[1].base)
            ELSE p.name
    IN  out_base_name \o "_bp" \o file_extension(cls)

\* Renderer.format_out_filename
format_out_filename(p, cls) ==
    LET out_base_name ==
            IF p.filepath # None
            THEN Concat(splitext_base(p.filepath[1]))
            ELSE p.name
    IN  out_base_name \o "_bp" \o file_extension(cls)

\* Renderer.get_outdir_default
get_outdir_default(p) ==
    IF p.filepath # None THEN p.filepath[1].dir ELSE "cwd"

\* Renderer.__init__
NewRenderer(cls, p, od) ==
    LET dir == IF od # None THEN od[1] ELSE get_outdir_default(p)
        out_filename == format_out_filename(p, cls)
    IN  [cls |-> cls, outdir |-> dir, out_filename |-> out_filename,
         out_filepath |-> <<dir, out_filename>>]

\* A defer loop that visits the block list front to back.
forward_order(n) == [j \in 1..n |-> j]

\* blocks[::-1]: the order in which the defer loop visits the block list.
reversed_order(n) == [j \in 1..n |-> n + 1 - j]

-----------------------------------------------------------------------------
(* Arguments of render() *)

Langs == {"c", "go", "py", "rust"}

Protos ==
    {[name |-> "proto", filepath |-> None],
     [name |-> "proto",
      filepath |-> Some([dir |-> "src", base |-> <<"example", ".bitproto">>])]}

OutDirs == {None, Some("out")}

-----------------------------------------------------------------------------
(* Case styles (bitproto.utils converters and CaseStyle) *)

Upper(c) == CASE c = "a" -> "A" [] c = "b" -> "B" [] OTHER -> c
Lower(c) == CASE c = "A" -> "a" [] c = "B" -> "b" [] OTHER -> c
IsUpper(c) == c \in {"A", "B"}
IsLower(c) == c \in {"a", "b"}

\* utils.keep_case
keep_case(w) == w

\* utils.upper_case
upper_case(w) == [j \in 1..Len(w) |-> Upper(w[j])]

\* utils.snake_case: an underscore goes between a lower-case letter and the
\* upper-case letter after it, and every letter becomes lower case.
RECURSIVE snake_from(_, _)
snake_from(w, j) ==
    IF j > Len(w) THEN <<>>
    ELSE (IF j > 1 /\ IsUpper(w[j]) /\ IsLower(w[j - 1])
          THEN <<"_", Lower(w[j])>>
          ELSE <<Lower(w[j])>>) \o snake_from(w, j + 1)

snake_case(w) == snake_from(w, 1)

\* utils.pascal_case: the first letter of every underscore-separated part
\* becomes upper case and the underscores go.
RECURSIVE pascal_from(_, _)
pascal_from(w, j) ==
    IF j > Len(w) THEN <<>>
    ELSE (IF w[j] = "_" THEN <<>>
          ELSE IF j = 1 \/ w[j - 1] = "_" THEN <<Upper(w[j])>>
          ELSE <<w[j]>>) \o pascal_from(w, j + 1)

pascal_case(w) == pascal_from(w, 1)

\* A converter function a case_style_mapping may hold: str.lower.
lower_case(w) == [j \in 1..Len(w) |-> Lower(w[j])]

\* CaseStyle.from_name: mapping.get(name, cls.KEEP)
from_name(name) ==
    CASE name = "snake" -> "SNAKE"
      [] name = "upper" -> "UPPER"
      [] name = "pascal" -> "PASCAL"
      [] OTHER -> "KEEP"

\* CaseStyle.converter, applied to s
converter(style, w) ==
    CASE style = "SNAKE" -> snake_case(w)
      [] style = "UPPER" -> upper_case(w)
      [] style = "PASCAL" -> pascal_case(w)
      [] OTHER -> keep_case(w)

\* Values of the case_style_mapping dict: a str, a tuple of str, a callable
\* or a value of another type (t), with the names it holds.
StrEntry(name) == [t |-> "str", names |-> <<name>>]
TupleEntry(names) == [t |-> "tuple", names |-> names]
CallableEntry == [t |-> "callable", names |-> <<>>]
OtherEntry == [t |-> "int", names |-> <<>>]

\* What a called function gives: a returned text or a raised exception.
Returned(w) == [exc |-> "none", s |-> w]
Raised(exc) == [exc |-> exc, s |-> <<>>]

\* A lookup whose default style is upper instead of keep.
mapping_get_upper(mapping, class) ==
    IF class \in DOMAIN mapping THEN mapping[class] ELSE StrEntry("upper")

\* mapping.get(class_, "keep")
mapping_get(mapping, class) ==
    IF class \in DOMAIN mapping THEN mapping[class] ELSE StrEntry("keep")

RECURSIVE convert_each(_, _, _)
convert_each(names, j, w) ==
    IF j > Len(names) THEN w
    ELSE convert_each(names, j + 1, converter(from_name(names[j]), w))

\* Formatter.format_case_style
format_case_style(f, w, class) ==
    LET v == mapping_get(f.mapping, class)
    IN  CASE v.t = "str" -> Returned(converter(from_name(v.names[1]), w))
          [] v.t = "tuple" -> Returned(convert_each(v.names, 1, w))
          [] v.t = "callable" -> Returned(lower_case(w))
          [] OTHER -> Raised("InternalError")

-----------------------------------------------------------------------------
(* Definitions and scopes (bitproto._ast) *)

Kinds == {"Proto", "Message", "Enum", "Alias", "Constant", "EnumField"}

\* A Definition: its class, its name, the alias its enclosing scope knows it
\* by (None when the scope records none) and its scope_stack.
Definition(kind, name, alias, stack) ==
    [kind |-> kind, name |-> name, alias |-> alias, scope_stack |-> stack]

\* Scope.get_name_by_member
get_name_by_member(scope, d) == d.alias

\* isinstance(scope, BoundScope): a Message or an Enum, never a Proto.
IsBoundScope(scope) == scope.kind \in {"Message", "Enum"}

\* Python's truth value of an Optional[str]
Truthy(opt) == opt # None /\ opt[1] # <<>>

-----------------------------------------------------------------------------
(* Formatter: name resolution *)

\* Formatter.scopes_with_namespace (overridable, default Message and Proto)
scopes_with_namespace(f) == f.namespaces

\* Formatter.delimer_inner_proto (overridable, default "_")
delimer_inner_proto(f) == f.inner

\* Formatter.delimer_cross_proto (overridable, default ".")
delimer_cross_proto(f) == f.cross

\* Formatter.support_import_as_member (abstract)
support_import_as_member(f) == f.support

\* Formatter._get_definition_name
_get_definition_name(d) ==
    IF Len(d.scope_stack) <= 0 THEN d.name
    ELSE LET scope == d.scope_stack[Len(d.scope_stack)]
             got == get_name_by_member(scope, d)
         IN  IF Truthy(got) THEN got[1] ELSE d.name

\* The loop "for namespace in namespaces[::-1]" of
\* _format_definition_name_inner_proto, from position j down.
RECURSIVE insert_namespaces(_, _, _)
insert_namespaces(namespaces, j, items) ==
    IF j = 0 THEN items
    ELSE IF IsBoundScope(namespaces[j])
         THEN insert_namespaces(namespaces, j - 1,
                                <<_get_definition_name(namespaces[j])>> \o items)
         ELSE IF namespaces[j].kind = "Proto" THEN items
         ELSE insert_namespaces(namespaces, j - 1, items)

\* The namespace filter testing the class of d instead of the scope's.
_format_definition_name_inner_proto_by_d(f, d) ==
    LET definition_name == _get_definition_name(d)
        classes == scopes_with_namespace(f)
        namespaces == SelectSeq(d.scope_stack, LAMBDA scope : d.kind \in classes)
    IN  IF Len(namespaces) <= 1 THEN definition_name
        ELSE Join(delimer_inner_proto(f),
                  insert_namespaces(namespaces, Len(namespaces), <<definition_name>>))

\* Formatter._format_definition_name_inner_proto
_format_definition_name_inner_proto(f, d) ==
    LET definition_name == _get_definition_name(d)
        classes == scopes_with_namespace(f)
        namespaces == SelectSeq(d.scope_stack, LAMBDA scope : scope.kind \in classes)
    IN  IF Len(namespaces) <= 1 THEN definition_name
        ELSE Join(delimer_inner_proto(f),
                  insert_namespaces(namespaces, Len(namespaces), <<definition_name>>))

\* Case conversion of the local name before the join, ancestors unconverted.
format_definition_name_inner_proto_local_first(f, d, class) ==
    LET c == IF class # None THEN class[1] ELSE d.kind
        local == format_case_style(f, _get_definition_name(d), c)
        joined == _format_definition_name_inner_proto(f, d)
    IN  IF local.exc # "none" THEN local
        ELSE Returned(SubSeq(joined, 1, Len(joined) - Len(_get_definition_name(d)))
                      \o local.s)

\* Formatter.format_definition_name_inner_proto
format_definition_name_inner_proto(f, d, class) ==
    LET c == IF class # None THEN class[1] ELSE d.kind
        name == _format_definition_name_inner_proto(f, d)
    IN  format_case_style(f, name, c)

\* The qualifier taken from the first Proto of the chain instead of the last.
format_definition_name_first_proto(f, d, class) ==
    LET definition_name == format_definition_name_inner_proto(f, d, class)
        protos == SelectSeq(d.scope_stack, LAMBDA scope : scope.kind = "Proto")
    IN  IF definition_name.exc # "none" THEN definition_name
        ELSE IF Len(protos) <= 1 THEN definition_name
        ELSE IF ~support_import_as_member(f) THEN definition_name
        ELSE Returned(Join(delimer_cross_proto(f),
                           <<_get_definition_name(protos[1]), definition_name.s>>))

\* Formatter.format_definition_name
format_definition_name(f, d, class) ==
    LET definition_name == format_definition_name_inner_proto(f, d, class)
        protos == SelectSeq(d.scope_stack, LAMBDA scope : scope.kind = "Proto")
    IN  IF definition_name.exc # "none" THEN definition_name
        ELSE IF Len(protos) <= 1 THEN definition_name
        ELSE IF ~support_import_as_member(f) THEN definition_name
        ELSE LET imported == protos[Len(protos)]
             IN  Returned(Join(delimer_cross_proto(f),
                               <<_get_definition_name(imported), definition_name.s>>))

\* Formatter.support_import of renderer.py (abstract)
support_import(f) == f.support

\* Formatter.format_definition_name of renderer.py
RECURSIVE renderer_format_definition_name(_, _)
renderer_format_definition_name(f, d) ==
    IF Len(d.scope_stack) = 0 THEN d.name
    ELSE LET scope == d.scope_stack[Len(d.scope_stack)]
             got == get_name_by_member(scope, d)
             definition_name == IF Truthy(got) THEN got[1] ELSE d.name
             classes_ == scopes_with_namespace(f)
             namespaces == SelectSeq(d.scope_stack, LAMBDA sc : d.kind \in classes_)
         IN  IF Len(namespaces) <= 1 THEN definition_name
             ELSE LET namespace == namespaces[Len(namespaces)]
                  IN  IF namespace.kind = "Proto"
                      THEN IF ~support_import(f) THEN definition_name
                           ELSE Join(delimer_cross_proto(f),
                                     <<renderer_format_definition_name(f, namespace),
                                       definition_name>>)
                      ELSE Join(delimer_inner_proto(f),
                                <<renderer_format_definition_name(f, namespace),
                                  definition_name>>)

-----------------------------------------------------------------------------
(* Arguments of format_definition_name() *)

\* Deepest scope_stack of a definition in the model.
MaxDepth == 3

\* The names definitions are declared with.
NamePool == {<<"a">>, <<"B">>, <<"a", "_", "B">>}

\* The names of the scopes (Messages, Enums) that enclose other definitions.
ScopeNames == {<<"a">>, <<"B">>}

\* The name of an imported Proto.
ImportNames == {<<"a">>}

\* The member name an importing Proto records for an imported one.
ImportAliases == {None, Some(<<"b">>)}

\* The Proto a definition tree is rooted at.
RootProto == Definition("Proto", <<"B">>, None, <<>>)

\* The definitions a parser may declare directly inside scope_stack st.
MemberDefs(st) ==
    IF st = <<>>
    THEN {Definition(kd, nm, None, st) : kd \in Kinds, nm \in NamePool}
    ELSE LET within == st[Len(st)].kind
         IN  CASE within = "Proto" ->
                    {Definition(kd, nm, None, st) :
                        kd \in {"Message", "Enum", "Alias", "Constant"}, nm \in NamePool}
                    \cup {Definition("Proto", nm, al, st) :
                            nm \in NamePool, al \in ImportAliases}
               [] within = "Message" ->
                    {Definition(kd, nm, None, st) :
                        kd \in {"Message", "Enum", "Alias", "Constant"}, nm \in NamePool}
               [] OTHER ->
                    {Definition("EnumField", nm, None, st) : nm \in NamePool}

\* The members that are scopes enclosing further definitions.
IsScopeIn(d) ==
    \/ d.kind \in {"Message", "Enum"} /\ d.name \in ScopeNames
    \/ d.kind = "Proto" /\ d.name \in ImportNames

\* The scope stacks of at most n scopes, each rooted at RootProto.
RECURSIVE ScopeStacks(_)
ScopeStacks(n) ==
    IF n = 0 THEN {<<>>}
    ELSE IF n = 1 THEN {<<>>, <<RootProto>>}
    ELSE LET shorter == ScopeStacks(n - 1)
         IN  shorter \cup
             UNION {{Append(st, sc) : sc \in {m \in MemberDefs(st) : IsScopeIn(m)}} :
                        st \in {t \in shorter : Len(t) = n - 1}}

Definitions == UNION {MemberDefs(st) : st \in ScopeStacks(MaxDepth)}

DefaultNamespaces == {"Message", "Proto"}

\* The case_style_mapping values the formatters of the model hold.
Entries ==
    {StrEntry("keep"), StrEntry("snake"), StrEntry("upper"), StrEntry("pascal"),
     StrEntry("camel"), TupleEntry(<<"snake", "upper">>),
     TupleEntry(<<"upper", "snake">>), TupleEntry(<<"upper", "camel">>),
     CallableEntry, OtherEntry}

NameEntries ==
    {StrEntry("keep"), StrEntry("snake"), StrEntry("upper"), StrEntry("pascal"),
     TupleEntry(<<"snake", "upper">>), CallableEntry, OtherEntry}

\* The delimiters of the base class ("_" and ".") and of an override.
DefaultDelimiters == [inner |-> <<"_">>, cross |-> <<".">>]
Delimiters == {DefaultDelimiters, [inner |-> <<"_", "_">>, cross |-> <<":">>]}

\* A Formatter: its overridable and abstract members.
Formatter(mapping, support, namespaces, delimiters) ==
    [mapping |-> mapping, support |-> support, namespaces |-> namespaces,
     inner |-> delimiters.inner, cross |-> delimiters.cross]

EmptyMapping == [c \in {} |-> StrEntry("keep")]

\* The Formatters a definition of class kd is resolved by: the mapping is
\* empty or has one entry, for kd or for MessageField.
FormattersFor(kd) ==
    {Formatter(m, sup, ns, dl) :
        m \in {EmptyMapping, [c \in {"MessageField"} |-> StrEntry("upper")]}
              \cup {[c \in {kd} |-> e] : e \in NameEntries},
        sup \in BOOLEAN,
        ns \in {DefaultNamespaces, DefaultNamespaces \cup {"Enum"}},
        dl \in Delimiters}

DefaultFormatter == Formatter(EmptyMapping, FALSE, DefaultNamespaces, DefaultDelimiters)

\* The class_ argument the format_*_name callers pass for d.
ClassArgs(d) == IF d.kind = "Enum" THEN {None, Some("Enum")} ELSE {None}

\* The member-name path of a definition below its root Proto.
Path(d) ==
    [j \in 1..Len(d.scope_stack) |->
        IF j = Len(d.scope_stack) THEN _get_definition_name(d)
        ELSE _get_definition_name(d.scope_stack[j + 1])]

IsProperPrefix(p, q) == Len(p) < Len(q) /\ SubSeq(q, 1, Len(p)) = p

\* Definitions of one Proto, below Messages only.
InOneProto(d) ==
    /\ d.scope_stack # <<>>
    /\ d.kind \in {"Message", "Enum", "Alias", "Constant"}
    /\ \A j \in 1..Len(d.scope_stack) :
          d.scope_stack[j].kind = (IF j = 1 THEN "Proto" ELSE "Message")

\* Two distinct definitions of one tree whose member names are unique within
\* each scope.
SameTree(d1, d2) ==
    /\ Path(d1) # Path(d2)
    /\ IsProperPrefix(Path(d1), Path(d2)) => d1.kind = "Message"
    /\ IsProperPrefix(Path(d2), Path(d1)) => d2.kind = "Message"

DefinitionPairs ==
    LET ds == {d \in Definitions : InOneProto(d)}
    IN  UNION {{<<d1, d2>> : d2 \in {d \in ds : SameTree(d1, d)}} : d1 \in ds}

NameIdle ==
    /\ ndefs = <<>>
    /\ ncls = None
    /\ nfmt = DefaultFormatter
    /\ npc = "idle"
    /\ nres = <<>>

RenderIdle ==
    /\ lang = "c"
    /\ proto = [name |-> "proto", filepath |-> None]
    /\ outdir = None
    /\ pc = "idle"
    /\ err = "none"
    /\ clss = None
    /\ k = 0
    /\ outs = <<>>
    /\ constructed = <<>>
    /\ renderer = None
    /\ blocks = <<>>
    /\ strings = <<>>
    /\ i = 0
    /\ calls = <<>>
    /\ content = None
    /\ files = <<>>

BlockIdle ==
    /\ blk = NewBlock(Completes(<<>>), BaseDefer)
    /\ bdef = [comment_block |-> <<>>, lineno |-> "7"]
    /\ bdebug = TRUE
    /\ bops = <<>>

-----------------------------------------------------------------------------
(* Formatter: format_value and format_case_style called on their own *)

\* Largest magnitude of an integer value in the model.
MaxInt == 2

\* A Value: a bool (an int of Python, 0 or 1), an int, a str, or an object
\* of another type.
BoolValue(b) == [type |-> "bool", int |-> IF b THEN 1 ELSE 0, text |-> <<>>]
IntValue(n) == [type |-> "int", int |-> n, text |-> <<>>]
StrValue(w) == [type |-> "str", int |-> 0, text |-> w]
FloatValue == [type |-> "float", int |-> 0, text |-> <<>>]

Values ==
    {BoolValue(b) : b \in BOOLEAN}
        \cup {IntValue(n) : n \in (0 - MaxInt)..MaxInt}
        \cup {StrValue(w) : w \in NamePool \cup {<<>>}}
        \cup {FloatValue}

\* value is True or value is False
IsBool(value) == value.type = "bool"

\* isinstance(value, str)
IsStr(value) == value.type = "str"

\* isinstance(value, int): bool is a subclass of int.
IsInt(value) == value.type \in {"bool", "int"}

\* A call of an abstract literal hook of the Formatter, and a return of None.
HookCall(hook, value) == [exc |-> "none", hook |-> hook, arg |-> value]
ReturnedNone == [exc |-> "none", hook |-> "none", arg |-> FloatValue]

\* A dispatch that tests the integer case before the boolean case.
format_value_int_first(value) ==
    IF IsInt(value) THEN HookCall("format_int_value", value)
    ELSE IF IsBool(value) THEN HookCall("format_bool_value", value)
    ELSE IF IsStr(value) THEN HookCall("format_str_value", value)
    ELSE ReturnedNone

\* Formatter.format_value
format_value(value) ==
    IF IsBool(value) THEN HookCall("format_bool_value", value)
    ELSE IF IsStr(value) THEN HookCall("format_str_value", value)
    ELSE IF IsInt(value) THEN HookCall("format_int_value", value)
    ELSE ReturnedNone

\* Largest nbytes() of an integer type in the model.
MaxBytes == 9

\* A Type: its class and, for the integer types, its nbytes().
Type(variant, nbytes) == [variant |-> variant, nbytes |-> nbytes]

\* An object of a Type subclass outside Bool .. Alias.
NoType == Type("Type", 0)

Types ==
    {Type(v, 0) : v \in {"Bool", "Byte", "Array", "Enum", "Message", "Alias"}}
        \cup {Type(v, n) : v \in {"Uint", "Int"}, n \in 1..MaxBytes}
        \cup {NoType}

\* A Constant: its class.
ConstantOf(variant) == [variant |-> variant]

\* A Constant that is no Boolean-, String- or IntegerConstant.
NoConstant == ConstantOf("Constant")

ConstantObjects ==
    {ConstantOf(v) : v \in {"BooleanConstant", "StringConstant", "IntegerConstant"}}
        \cup {NoConstant}

\* The names format_type is given.
TypeNames == {None, Some(<<"a">>)}

\* A returned int.
ReturnedInt(n) == [exc |-> "none", n |-> n]

\* Formatter.format_type
format_type(t, name) ==
    CASE t.variant = "Bool" -> HookCall("format_bool_type", None)
      [] t.variant = "Byte" -> HookCall("format_byte_type", None)
      [] t.variant = "Uint" -> HookCall("format_uint_type", t)
      [] t.variant = "Int" -> HookCall("format_int_type", t)
      [] t.variant = "Array" -> HookCall("format_array_type", <<t, name>>)
      [] t.variant = "Enum" -> HookCall("format_enum_type", t)
      [] t.variant = "Message" -> HookCall("format_message_type", t)
      [] t.variant = "Alias" -> HookCall("format_alias_type", t)
      [] OTHER -> Raised("InternalError")

\* The text "_unknown_type".
UnknownType == <<"_", "u", "n", "k", "n", "o", "w", "n", "_", "t", "y", "p", "e">>

\* Formatter.format_type of renderer.py
renderer_format_type(t) ==
    CASE t.variant = "Bool" -> HookCall("format_bool_type", None)
      [] t.variant = "Byte" -> HookCall("format_byte_type", None)
      [] t.variant = "Uint" -> HookCall("format_uint_type", t)
      [] t.variant = "Int" -> HookCall("format_int_type", t)
      [] t.variant = "Array" -> HookCall("format_array_type", t)
      [] t.variant = "Enum" -> HookCall("format_enum_type", t)
      [] t.variant = "Message" -> HookCall("format_message_type", t)
      [] t.variant = "Alias" -> HookCall("format_alias_type", t)
      [] OTHER -> Returned(UnknownType)

\* Formatter.format_constant_type
format_constant_type(c) ==
    CASE c.variant = "BooleanConstant" -> HookCall("format_bool_value_type", None)
      [] c.variant = "StringConstant" -> HookCall("format_string_value_type", None)
      [] c.variant = "IntegerConstant" -> HookCall("format_int_value_type", None)
      [] OTHER -> Raised("InternalError")

\* A width that is the byte count times eight, without rounding up.
get_nbits_of_integer_exact(t) == ReturnedInt(t.nbytes * 8)

\* Formatter.get_nbits_of_integer
get_nbits_of_integer(t) ==
    LET nbytes == t.nbytes
    IN  IF nbytes = 1 THEN ReturnedInt(8)
        ELSE IF nbytes = 2 THEN ReturnedInt(16)
        ELSE IF nbytes \in {3, 4} THEN ReturnedInt(32)
        ELSE IF nbytes \in {5, 6, 7, 8} THEN ReturnedInt(64)
        ELSE ReturnedInt(nbytes * 8)

\* Formatter.nbits_from_integer_type of renderer.py
nbits_from_integer_type(t) ==
    LET nbytes == t.nbytes
    IN  IF nbytes = 1 THEN ReturnedInt(8)
        ELSE IF nbytes = 2 THEN ReturnedInt(16)
        ELSE IF nbytes \in {3, 4} THEN ReturnedInt(32)
        ELSE IF nbytes \in {5, 6, 7, 8} THEN ReturnedInt(64)
        ELSE ReturnedInt(nbytes * 8)

\* The integer types: Uint and Int.
IntegerTypes == {t \in Types : t.variant \in {"Uint", "Int"}}

\* The strings format_case_style is called on.
CaseWords ==
    {<<"a">>, <<"a", "B">>, <<"A", "b">>, <<"a", "_", "B">>, <<"B", "_", "a">>,
     <<"a", "B", "a">>}

\* The classes format_case_style is called for.
CaseClasses == {"Constant", "EnumField"}

FormatterIdle ==
    /\ fop = "none"
    /\ farg = <<>>
    /\ fcls = "Constant"
    /\ ffmt = DefaultFormatter
    /\ fval = FloatValue
    /\ ft = NoType
    /\ fc = NoConstant
    /\ fpc = "idle"
    /\ fres = Raised("none")

InitFormatter ==
    /\ RenderIdle
    /\ NameIdle
    /\ BlockIdle
    /\ \/ /\ fop = "format_case_style"
          /\ farg \in CaseWords
          /\ fcls \in CaseClasses
          /\ ffmt \in {Formatter(mp, FALSE, DefaultNamespaces, DefaultDelimiters) :
                          mp \in {EmptyMapping}
                                 \cup {[c \in {"Constant"} |-> e] : e \in Entries}}
          /\ fval = FloatValue
          /\ ft = NoType
          /\ fc = NoConstant
       \/ /\ fop = "format_value"
          /\ fval \in Values
          /\ farg = <<>>
          /\ fcls = "Constant"
          /\ ffmt = DefaultFormatter
          /\ ft = NoType
          /\ fc = NoConstant
       \/ /\ fop = "format_type"
          /\ ft \in Types
          /\ farg \in TypeNames
          /\ fcls = "Constant"
          /\ ffmt = DefaultFormatter
          /\ fval = FloatValue
          /\ fc = NoConstant
       \/ /\ fop = "renderer_format_type"
          /\ ft \in Types
          /\ farg = <<>>
          /\ fcls = "Constant"
          /\ ffmt = DefaultFormatter
          /\ fval = FloatValue
          /\ fc = NoConstant
       \/ /\ fop = "format_constant_type"
          /\ fc \in ConstantObjects
          /\ farg = <<>>
          /\ fcls = "Constant"
          /\ ffmt = DefaultFormatter
          /\ fval = FloatValue
          /\ ft = NoType
       \/ /\ fop \in {"get_nbits_of_integer", "nbits_from_integer_type"}
          /\ ft \in IntegerTypes
          /\ farg = <<>>
          /\ fcls = "Constant"
          /\ ffmt = DefaultFormatter
          /\ fval = FloatValue
          /\ fc = NoConstant
    /\ fpc = "call"
    /\ fres = Raised("none")

\* format_case_style(s, class_)
FormatCaseStyle ==
    /\ fpc = "call"
    /\ fop = "format_case_style"
    /\ fres' = format_case_style(ffmt, farg, fcls)
    /\ fpc' = "done"
    /\ UNCHANGED <<fop, farg, fcls, ffmt, fval, ft, fc>>
    /\ UNCHANGED <<rvars, nvars, bvars>>

\* format_value(value)
FormatValue ==
    /\ fpc = "call"
    /\ fop = "format_value"
    /\ fres' = format_value(fval)
    /\ fpc' = "done"
    /\ UNCHANGED <<fop, farg, fcls, ffmt, fval, ft, fc>>
    /\ UNCHANGED <<rvars, nvars, bvars>>

\* format_type(t, name)
FormatType ==
    /\ fpc = "call"
    /\ fop = "format_type"
    /\ fres' = format_type(ft, farg)
    /\ fpc' = "done"
    /\ UNCHANGED <<fop, farg, fcls, ffmt, fval, ft, fc>>
    /\ UNCHANGED <<rvars, nvars, bvars>>

\* format_type(t) of renderer.py
RendererFormatType ==
    /\ fpc = "call"
    /\ fop = "renderer_format_type"
    /\ fres' = renderer_format_type(ft)
    /\ fpc' = "done"
    /\ UNCHANGED <<fop, farg, fcls, ffmt, fval, ft, fc>>
    /\ UNCHANGED <<rvars, nvars, bvars>>

\* format_constant_type(c)
FormatConstantType ==
    /\ fpc = "call"
    /\ fop = "format_constant_type"
    /\ fres' = format_constant_type(fc)
    /\ fpc' = "done"
    /\ UNCHANGED <<fop, farg, fcls, ffmt, fval, ft, fc>>
    /\ UNCHANGED <<rvars, nvars, bvars>>

\* get_nbits_of_integer(t)
GetNbitsOfInteger ==
    /\ fpc = "call"
    /\ fop = "get_nbits_of_integer"
    /\ fres' = get_nbits_of_integer(ft)
    /\ fpc' = "done"
    /\ UNCHANGED <<fop, farg, fcls, ffmt, fval, ft, fc>>
    /\ UNCHANGED <<rvars, nvars, bvars>>

\* nbits_from_integer_type(t) of renderer.py
NbitsFromIntegerType ==
    /\ fpc = "call"
    /\ fop = "nbits_from_integer_type"
    /\ fres' = nbits_from_integer_type(ft)
    /\ fpc' = "done"
    /\ UNCHANGED <<fop, farg, fcls, ffmt, fval, ft, fc>>
    /\ UNCHANGED <<rvars, nvars, bvars>>

NextFormatter ==
    \/ FormatCaseStyle
    \/ FormatValue
    \/ FormatType
    \/ RendererFormatType
    \/ FormatConstantType
    \/ GetNbitsOfInteger
    \/ NbitsFromIntegerType

SpecFormatter == InitFormatter /\ [][NextFormatter]_vars

-----------------------------------------------------------------------------
(* format_definition_name(d, class_) *)

InitName ==
    /\ RenderIdle
    /\ FormatterIdle
    /\ BlockIdle
    /\ \/ \E d \in Definitions :
             /\ ndefs = <<d>>
             /\ ncls \in ClassArgs(d)
             /\ nfmt \in FormattersFor(d.kind)
       \/ /\ ndefs \in DefinitionPairs
          /\ ncls = None
          /\ nfmt \in {Formatter(EmptyMapping, sup, DefaultNamespaces, DefaultDelimiters) :
                            sup \in BOOLEAN}
    /\ npc = "call"
    /\ nres = <<>>

\* format_definition_name(d, class_) for each d of ndefs
FormatDefinitionName ==
    /\ npc = "call"
    /\ nres' = [j \in 1..Len(ndefs) |-> format_definition_name(nfmt, ndefs[j], ncls)]
    /\ npc' = "done"
    /\ UNCHANGED <<ndefs, ncls, nfmt>>
    /\ UNCHANGED <<rvars, fvars, bvars>>

\* format_definition_name(d) of renderer.py, whose Formatter has no
\* case_style_mapping and which takes no class_.
RendererFormatDefinitionName ==
    /\ npc = "call"
    /\ Len(ndefs) = 1
    /\ ncls = None
    /\ nfmt.mapping = EmptyMapping
    /\ nres' = <<Returned(renderer_format_definition_name(nfmt, ndefs[1]))>>
    /\ npc' = "done_renderer"
    /\ UNCHANGED <<ndefs, ncls, nfmt>>
    /\ UNCHANGED <<rvars, fvars, bvars>>

NextName ==
    \/ FormatDefinitionName
    \/ RendererFormatDefinitionName

SpecName == InitName /\ [][NextName]_vars

-----------------------------------------------------------------------------
(* A Block used on its own *)

\* Most calls made on the block.
MaxOps == 3

\* Block.__init__(formatter, ident): with or without a Formatter.
BlockObjects ==
    {[NewBlock(Completes(<<>>), BaseDefer) EXCEPT !.formatter = f, !.ident = n] :
        f \in BOOLEAN, n \in {0, 1}}

\* The definition of a BlockForDefinition: its comments and its line number.
BlockDefinitions ==
    {[comment_block |-> cb, lineno |-> "7"] : cb \in {<<>>, <<<<"c">>>>}}

\* The ident argument of push: absent, 0 or 1.
Idents == {None, Some(0), Some(1)}

\* One entry of the call log.
Call(op, line, ident, out) ==
    [op |-> op, line |-> line, ident |-> ident, exc |-> out.exc, ret |-> out.ret]

InitBlock ==
    /\ RenderIdle
    /\ NameIdle
    /\ FormatterIdle
    /\ blk \in BlockObjects
    /\ bdef \in BlockDefinitions
    /\ bdebug \in BOOLEAN
    /\ bops = <<>>

\* block.push(line, ident)
Push ==
    /\ Len(bops) < MaxOps
    /\ \E ident \in Idents :
          LET out == push(blk, <<"x">>, ident, bdebug)
          IN  /\ blk' = out.block
              /\ bops' = Append(bops, Call("push", <<"x">>, ident, out))
    /\ UNCHANGED <<bdef, bdebug>>
    /\ UNCHANGED <<rvars, nvars, fvars>>

\* block.push_empty_line()
PushEmptyLine ==
    /\ Len(bops) < MaxOps
    /\ LET out == push_empty_line(blk, bdebug)
       IN  /\ blk' = out.block
           /\ bops' = Append(bops, Call("push_empty_line", <<>>, None, out))
    /\ UNCHANGED <<bdef, bdebug>>
    /\ UNCHANGED <<rvars, nvars, fvars>>

\* block.push_string(s)
PushString ==
    /\ Len(bops) < MaxOps
    /\ LET out == push_string(blk, <<"y">>, <<" ">>)
       IN  /\ blk' = out.block
           /\ bops' = Append(bops, Call("push_string", <<"y">>, None, out))
    /\ UNCHANGED <<bdef, bdebug>>
    /\ UNCHANGED <<rvars, nvars, fvars>>

\* block.clear()
Clear ==
    /\ Len(bops) < MaxOps
    /\ blk' = clear(blk)
    /\ bops' = Append(bops, Call("clear", <<>>, None, Done(blk', None)))
    /\ UNCHANGED <<bdef, bdebug>>
    /\ UNCHANGED <<rvars, nvars, fvars>>

\* block.collect()
Collect ==
    /\ Len(bops) < MaxOps
    /\ LET got == collect(blk)
       IN  /\ blk' = got.block
           /\ bops' = Append(bops, Call("collect", <<>>, None, Done(blk', Some(got.s))))
    /\ UNCHANGED <<bdef, bdebug>>
    /\ UNCHANGED <<rvars, nvars, fvars>>

\* block.set_formatter(formatter)
SetFormatter ==
    /\ Len(bops) < MaxOps
    /\ blk' = set_formatter(blk)
    /\ bops' = Append(bops, Call("set_formatter", <<>>, None, Done(blk', None)))
    /\ UNCHANGED <<bdef, bdebug>>
    /\ UNCHANGED <<rvars, nvars, fvars>>

\* block.render_doc()
RenderDoc ==
    /\ Len(bops) < MaxOps
    /\ LET out == render_doc(blk, bdef.comment_block, bdebug)
       IN  /\ blk' = out.block
           /\ bops' = Append(bops, Call("render_doc", <<>>, None, out))
    /\ UNCHANGED <<bdef, bdebug>>
    /\ UNCHANGED <<rvars, nvars, fvars>>

\* block.push_location_doc()
PushLocationDoc ==
    /\ Len(bops) < MaxOps
    /\ LET out == push_location_doc(blk, bdef, bdebug)
       IN  /\ blk' = out.block
           /\ bops' = Append(bops, Call("push_location_doc", <<>>, None, out))
    /\ UNCHANGED <<bdef, bdebug>>
    /\ UNCHANGED <<rvars, nvars, fvars>>

NextBlock ==
    \/ Push
    \/ PushEmptyLine
    \/ PushString
    \/ Clear
    \/ Collect
    \/ SetFormatter
    \/ RenderDoc
    \/ PushLocationDoc

SpecBlock == InitBlock /\ [][NextBlock]_vars

-----------------------------------------------------------------------------
(* render(proto, lang, outdir) *)

Init ==
    /\ lang \in Langs
    /\ proto \in Protos
    /\ outdir \in OutDirs
    /\ pc = "entry"
    /\ err = "none"
    /\ clss = None
    /\ k = 0
    /\ outs = <<>>
    /\ constructed = <<>>
    /\ renderer = None
    /\ blocks = <<>>
    /\ strings = <<>>
    /\ i = 0
    /\ calls = <<>>
    /\ content = None
    /\ files = <<>>
    /\ NameIdle
    /\ FormatterIdle
    /\ BlockIdle

\* render(): clss = get_renderer_cls(lang); raise when it is None.
RenderEntry ==
    /\ pc = "entry"
    /\ clss' = get_renderer_cls(lang)
    /\ IF clss' = None
       THEN /\ err' = "UnsupportedLanguageToRender"
            /\ pc' = "failed"
            /\ UNCHANGED <<k, outs>>
       ELSE /\ outs' = <<>>
            /\ k' = 1
            /\ pc' = "construct"
            /\ UNCHANGED err
    /\ UNCHANGED <<nvars, fvars, bvars>>
    /\ UNCHANGED <<lang, proto, outdir, constructed, renderer, blocks, strings,
                   i, calls, content, files>>

\* render(): renderer = renderer_cls(proto, outdir=outdir)
Construct ==
    /\ pc = "construct"
    /\ LET r == NewRenderer(clss[1][k], proto, outdir)
       IN  /\ renderer' = Some(r)
           /\ constructed' = Append(constructed, r.cls)
    /\ content' = None
    /\ pc' = "render_string"
    /\ UNCHANGED <<nvars, fvars, bvars>>
    /\ UNCHANGED <<lang, proto, outdir, err, clss, k, outs, blocks, strings, i,
                   calls, files>>

\* render_string(): blocks = self.blocks(); strings = []; set_formatter on each.
RenderStringBegin ==
    /\ pc = "render_string"
    /\ \E bl \in blocks_of(renderer[1].cls) :
          /\ blocks' = [j \in 1..Len(bl) |-> set_formatter(bl[j])]
          /\ pc' = IF Len(bl) = 0 THEN "join" ELSE "render"
    /\ strings' = <<>>
    /\ i' = 1
    /\ UNCHANGED <<nvars, fvars, bvars>>
    /\ UNCHANGED <<lang, proto, outdir, err, clss, k, outs, constructed,
                   renderer, calls, content, files>>

\* One pass of a method body over block idx: the block afterwards.
RunBody(b, body, phase, idx) ==
    [b EXCEPT !.strings = push_all(b.strings, body.ops, phase, idx, 1)]

\* render_string(): one iteration of "for block in blocks: block.render();
\* strings.append(block.collect())".
RenderBlock ==
    /\ pc = "render"
    /\ LET b == blocks[i]
           after == RunBody(b, b.render, "r", i)
           got == collect(after)
       IN  /\ calls' = Append(calls, <<k, "render", i>>)
           /\ IF b.render.exc # "none"
              THEN /\ blocks' = [blocks EXCEPT ![i] = after]
                   /\ err' = b.render.exc
                   /\ pc' = "failed"
                   /\ UNCHANGED <<strings, i>>
              ELSE /\ blocks' = [blocks EXCEPT ![i] = got.block]
                   /\ strings' = Append(strings, got.s)
                   /\ IF i = Len(blocks)
                      THEN pc' = "defer" /\ i' = 1
                      ELSE pc' = "render" /\ i' = i + 1
                   /\ UNCHANGED err
    /\ UNCHANGED <<nvars, fvars, bvars>>
    /\ UNCHANGED <<lang, proto, outdir, clss, k, outs, constructed, renderer,
                   content, files>>

\* render_string(): one iteration of "for block in reversed_blocks: try:
\* block.defer(); strings.append(block.collect()) except NotImplementedError".
DeferBlock ==
    /\ pc = "defer"
    /\ LET idx == reversed_order(Len(blocks))[i]
           b == blocks[idx]
           after == RunBody(b, b.defer, "d", idx)
           got == collect(after)
           next == IF i = Len(blocks) THEN "join" ELSE "defer"
       IN  /\ calls' = Append(calls, <<k, "defer", idx>>)
           /\ CASE b.defer.exc = "none" ->
                     /\ blocks' = [blocks EXCEPT ![idx] = got.block]
                     /\ strings' = Append(strings, got.s)
                     /\ pc' = next
                     /\ i' = i + 1
                     /\ UNCHANGED err
                [] b.defer.exc = "NotImplementedError" ->
                     /\ blocks' = [blocks EXCEPT ![idx] = after]
                     /\ pc' = next
                     /\ i' = i + 1
                     /\ UNCHANGED <<strings, err>>
                [] OTHER ->
                     /\ blocks' = [blocks EXCEPT ![idx] = after]
                     /\ err' = b.defer.exc
                     /\ pc' = "failed"
                     /\ UNCHANGED <<strings, i>>
    /\ UNCHANGED <<nvars, fvars, bvars>>
    /\ UNCHANGED <<lang, proto, outdir, clss, k, outs, constructed, renderer,
                   content, files>>

\* render_string(): return "\n\n".join(strings), bound to content in render().
RenderStringReturn ==
    /\ pc = "join"
    /\ content' = Some(Join(NL \o NL, strings))
    /\ pc' = "write"
    /\ UNCHANGED <<nvars, fvars, bvars>>
    /\ UNCHANGED <<lang, proto, outdir, err, clss, k, outs, constructed,
                   renderer, blocks, strings, i, calls, files>>

\* Renderer.render(): write content to out_filepath; render(): outs.append.
WriteFile ==
    /\ pc = "write"
    /\ files' = Append(files, [path |-> renderer[1].out_filepath,
                               content |-> content[1]])
    /\ outs' = Append(outs, renderer[1].out_filepath)
    /\ IF k = Len(clss[1])
       THEN pc' = "return" /\ UNCHANGED k
       ELSE pc' = "construct" /\ k' = k + 1
    /\ UNCHANGED <<nvars, fvars, bvars>>
    /\ UNCHANGED <<lang, proto, outdir, err, clss, constructed, renderer,
                   blocks, strings, i, calls, content>>

\* render(): return outs
Return ==
    /\ pc = "return"
    /\ pc' = "done"
    /\ UNCHANGED <<nvars, fvars, bvars>>
    /\ UNCHANGED <<lang, proto, outdir, err, clss, k, outs, constructed,
                   renderer, blocks, strings, i, calls, content, files>>

Next ==
    \/ RenderEntry
    \/ Construct
    \/ RenderStringBegin
    \/ RenderBlock
    \/ DeferBlock
    \/ RenderStringReturn
    \/ WriteFile
    \/ Return

Spec == Init /\ [][Next]_vars

-----------------------------------------------------------------------------
(* Properties of render() and render_string() *)

\* The Block.render()/Block.defer() calls of the current Renderer.
CurCalls == SelectSeq(calls, LAMBDA e : e[1] = k)

\* The text a method body leaves in the buffer of block idx.
BodyText(body, phase, idx) ==
    Join(NL, [j \in 1..Len(body.ops) |-> LineOf(body.ops[j], phase, idx, j)])

\* The texts of the defer() calls that completed, last block first.
RECURSIVE DeferTexts(_, _)
DeferTexts(bs, idx) ==
    IF idx = 0 THEN <<>>
    ELSE (IF bs[idx].defer.exc = "none"
          THEN <<BodyText(bs[idx].defer, "d", idx)>>
          ELSE <<>>) \o DeferTexts(bs, idx - 1)

RenderTexts(bs) == [j \in 1..Len(bs) |-> BodyText(bs[j].render, "r", j)]

\* C1: render_string() calls render() on b1..bn in list order and, only after
\* every render() has completed, defer() on bn..b1; the text it returns is the
\* render-phase texts of b1..bn followed by the defer-phase texts of bn..b1,
\* and a defer() that is not implemented adds no text and raises no error.
C1_RenderThenDeferOrder ==
    LET n == Len(blocks)
    IN  /\ pc \in {"render", "defer", "join", "write", "failed"} =>
              \E m \in 0..n, d \in 0..n :
                  /\ d > 0 => m = n
                  /\ CurCalls = [j \in 1..m |-> <<k, "render", j>>]
                                \o [j \in 1..d |-> <<k, "defer", n + 1 - j>>]
        /\ pc = "write" =>
              /\ Len(CurCalls) = 2 * n
              /\ strings = RenderTexts(blocks) \o DeferTexts(blocks, n)
              /\ content = Some(Join(NL \o NL, strings))
              /\ err = "none"
        /\ \A idx \in 1..n :
              (blocks[idx].defer.exc = "NotImplementedError"
                 /\ CurCalls # <<>>
                 /\ CurCalls[Len(CurCalls)] = <<k, "defer", idx>>)
              => pc # "failed" /\ err = "none"

\* C1 witness: a two-block list whose first block has no defer() and whose
\* second block defers text has been rendered to its text.
C1_Witness ==
    /\ pc = "write"
    /\ Len(blocks) = 2
    /\ blocks[1].render = Completes(<<"text">>)
    /\ blocks[1].defer = BaseDefer
    /\ blocks[2].render = Completes(<<"text", "text">>)
    /\ blocks[2].defer = Completes(<<"text">>)
    /\ content = Some(<<"r", "1", "1", "\n", "\n",
                        "r", "2", "1", "\n", "r", "2", "2", "\n", "\n",
                        "d", "2", "1">>)

\* C2: a render() call either completes with all its files written or fails
\* with no file written by that call, also for a language with two Renderers.
C2_AllOrNothing ==
    /\ pc = "done" => Len(files) = Len(clss[1])
    /\ pc = "failed" => files = <<>>

\* C3: render() with a language tag that is no key of the registry raises
\* UnsupportedLanguageToRender before any Renderer is constructed, before any
\* block is rendered and with no file written.
C3_UnsupportedLanguage ==
    (lang \notin {"c", "go", "py"} /\ pc # "entry") =>
        /\ pc = "failed"
        /\ err = "UnsupportedLanguageToRender"
        /\ constructed = <<>>
        /\ renderer = None
        /\ calls = <<>>
        /\ files = <<>>

\* C3 witness: the call for the unregistered tag has failed.
C3_Witness ==
    /\ lang = "rust"
    /\ pc = "failed"
    /\ err = "UnsupportedLanguageToRender"

\* The pieces that hold text.
NonEmpty(pieces) == SelectSeq(pieces, LAMBDA piece : piece # <<>>)

\* C15: the text render_string() returns is the non-empty collected pieces
\* with exactly one blank line between adjacent ones; a block whose render()
\* or defer() buffered no line adds neither text nor a separator.
C15_BlankLineBetweenNonEmpty ==
    pc = "write" => content = Some(Join(NL \o NL, NonEmpty(strings)))

\* The proto's file name without its extension, or its name without a file.
BaseName(p) ==
    IF p.filepath # None
    THEN LET base == p.filepath[1].base
         IN  Concat(SubSeq(base, 1, Len(base) - 1))
    ELSE p.name

Extensions == {".c", ".h", ".go", ".py"}

\* C16: render() for a language mapped to two Renderer classes returns
\* exactly two paths, in the order of the registry tuple; both file names are
\* base_name + "_bp" + the Renderer's extension with one base_name, and the
\* two extensions differ.
C16_PairedOutputs ==
    (pc = "done" /\ lang = "c")
    => /\ Len(outs) = 2
       /\ constructed = get_renderer_registry[lang]
       /\ \E e1, e2 \in Extensions :
             /\ e1 # e2
             /\ e1 = file_extension(get_renderer_registry[lang][1])
             /\ e2 = file_extension(get_renderer_registry[lang][2])
             /\ outs[1][2] = BaseName(proto) \o "_bp" \o e1
             /\ outs[2][2] = BaseName(proto) \o "_bp" \o e2
       /\ [j \in 1..Len(files) |-> files[j].path] = outs

\* C16 witness: example.bitproto rendered for language c gave example_bp.c
\* and example_bp.h, in that order.
C16_Witness ==
    /\ pc = "done"
    /\ lang = "c"
    /\ proto.filepath # None
    /\ outdir = None
    /\ outs = <<<<"src", "example_bp.c">>, <<"src", "example_bp.h">>>>

\* The line occurs in the text.
Occurs(line, text) ==
    \E at \in 1..(Len(text) - Len(line) + 1) :
        SubSeq(text, at, at + Len(line) - 1) = line

\* C18: when render_string() returns normally every block's line buffer is
\* empty and every line a block pushed during its render() or defer() is in
\* the returned text, also when a defer() pushes lines and then raises
\* NotImplementedError.
C18_NothingLeftBehind ==
    pc = "write" =>
        \A idx \in 1..Len(blocks) :
            /\ blocks[idx].strings = <<>>
            /\ \A j \in 1..Len(blocks[idx].render.ops) :
                  Occurs(LineOf(blocks[idx].render.ops[j], "r", idx, j), content[1])
            /\ \A j \in 1..Len(blocks[idx].defer.ops) :
                  Occurs(LineOf(blocks[idx].defer.ops[j], "d", idx, j), content[1])

-----------------------------------------------------------------------------
(* Properties of format_definition_name() *)

\* The name its enclosing scope knows x by.
LocalName(x) ==
    IF x.scope_stack # <<>> /\ x.alias # None THEN x.alias[1] ELSE x.name

\* The scopes of st that are Protos.
ProtosOf(st) == SelectSeq(st, LAMBDA sc : sc.kind = "Proto")

\* The index in st of its innermost Proto, 0 when it has none.
InnermostProto(st) ==
    IF \E j \in 1..Len(st) : st[j].kind = "Proto"
    THEN CHOOSE j \in 1..Len(st) :
             /\ st[j].kind = "Proto"
             /\ \A h \in (j + 1)..Len(st) : st[h].kind # "Proto"
    ELSE 0

\* The namespace-defining ancestors of d inside its innermost Proto.
InnerAncestors(f, d) ==
    LET st == d.scope_stack
    IN  SelectSeq(SubSeq(st, InnermostProto(st) + 1, Len(st)),
                  LAMBDA sc : sc.kind \in f.namespaces)

\* Their local names, outermost first, then d's, joined by the delimiter.
QualifiedName(f, d) ==
    LET anc == InnerAncestors(f, d)
    IN  Join(f.inner, [j \in 1..Len(anc) |-> LocalName(anc[j])] \o <<LocalName(d)>>)

\* The case_style_mapping entry that applies to class c.
EntryFor(f, c) == IF c \in DOMAIN f.mapping THEN f.mapping[c] ELSE StrEntry("keep")

\* The class whose case style applies to the single definition formatted.
NameClass == IF ncls # None THEN ncls[1] ELSE ndefs[1].kind

\* The text an entry made of style names or a converter turns w into.
Styled(entry, w) ==
    CASE entry = StrEntry("snake") -> snake_case(w)
      [] entry = StrEntry("upper") -> upper_case(w)
      [] entry = StrEntry("pascal") -> pascal_case(w)
      [] entry = TupleEntry(<<"snake", "upper">>) -> upper_case(snake_case(w))
      [] entry = CallableEntry -> lower_case(w)
      [] OTHER -> w

\* One definition has been formatted.
NamedOne == npc = "done" /\ Len(ndefs) = 1

\* C4: with the keep style and at most one Proto in scope_stack, the name is
\* the local names of d's namespace-defining ancestors inside the Proto,
\* outermost first, then d's local name, joined by the inner-proto delimiter;
\* other ancestors add nothing, and with at most one namespace-defining
\* ancestor the name is the local name alone.
C4_InnerProtoName ==
    (/\ NamedOne
     /\ EntryFor(nfmt, NameClass) = StrEntry("keep")
     /\ Len(ProtosOf(ndefs[1].scope_stack)) <= 1)
    => LET d == ndefs[1]
           nspaces == SelectSeq(d.scope_stack, LAMBDA sc : sc.kind \in nfmt.namespaces)
       IN  /\ nres[1] = Returned(QualifiedName(nfmt, d))
           /\ Len(nspaces) <= 1 => nres[1] = Returned(LocalName(d))

\* C4 witness: a constant in message B in message a resolves to a_B_a.
C4_Witness ==
    /\ NamedOne
    /\ nfmt = DefaultFormatter
    /\ ndefs[1].kind = "Constant"
    /\ ndefs[1].name = <<"a">>
    /\ Len(ndefs[1].scope_stack) = 3
    /\ ndefs[1].scope_stack[2].kind = "Message"
    /\ ndefs[1].scope_stack[2].name = <<"a">>
    /\ ndefs[1].scope_stack[3].kind = "Message"
    /\ ndefs[1].scope_stack[3].name = <<"B">>
    /\ nres[1] = Returned(<<"a", "_", "B", "_", "a">>)

\* C5: with more than one Proto in scope_stack and support_import_as_member
\* the name is the imported Proto's local name, the cross-proto delimiter and
\* the inner-proto name; otherwise it is the inner-proto name alone.
C5_CrossProtoQualifier ==
    (NamedOne /\ EntryFor(nfmt, NameClass) # OtherEntry)
    => LET d == ndefs[1]
           protos == ProtosOf(d.scope_stack)
           inner == Styled(EntryFor(nfmt, NameClass), QualifiedName(nfmt, d))
       IN  nres[1] =
               IF Len(protos) > 1 /\ nfmt.support
               THEN Returned(LocalName(protos[Len(protos)]) \o nfmt.cross \o inner)
               ELSE Returned(inner)

\* C5 witness: a message of a Proto imported under the alias b is named b.a.
C5_Witness ==
    /\ NamedOne
    /\ nfmt.support
    /\ nfmt.cross = <<".">>
    /\ Len(ndefs[1].scope_stack) = 2
    /\ ndefs[1].scope_stack[2].kind = "Proto"
    /\ ndefs[1].scope_stack[2].alias = Some(<<"b">>)
    /\ ndefs[1].kind = "Message"
    /\ nres[1] = Returned(<<"b", ".", "a">>)

\* C6: two distinct definitions of one Proto, in a tree whose member names are
\* unique within each scope, get distinct names under the default delimiters
\* and the keep style.
C6_CollisionFree ==
    (npc = "done" /\ Len(ndefs) = 2) => nres[1] # nres[2]

\* C7: for a definition whose scope_stack is empty, format_definition_name
\* returns the definition's own name unchanged, whatever the Formatter.
C7_EmptyStackUnchanged ==
    (NamedOne /\ ndefs[1].scope_stack = <<>>) => nres[1] = Returned(ndefs[1].name)

\* C7 as amended: for a definition whose scope_stack is empty the result is
\* the definition's own name converted by the case style its class has in
\* case_style_mapping (unchanged without an entry or with keep), whatever the
\* delimiters, the namespace classes and support_import_as_member; an entry
\* that is no str, tuple or callable raises InternalError.
C7_EmptyStackCaseStyled ==
    (NamedOne /\ ndefs[1].scope_stack = <<>>)
    => LET entry == EntryFor(nfmt, NameClass)
       IN  /\ entry # OtherEntry => nres[1] = Returned(Styled(entry, ndefs[1].name))
           /\ entry = OtherEntry => nres[1] = Raised("InternalError")
           /\ NameClass \notin DOMAIN nfmt.mapping => nres[1] = Returned(ndefs[1].name)

\* C7 witness: a definition named a_B without scopes, of a class mapped to
\* upper, was formatted by a Formatter with overridden delimiters.
C7_Witness ==
    /\ NamedOne
    /\ ndefs[1].scope_stack = <<>>
    /\ ndefs[1].name = <<"a", "_", "B">>
    /\ EntryFor(nfmt, NameClass) = StrEntry("upper")
    /\ nfmt.inner # <<"_">>
    /\ nres[1] = Returned(<<"A", "_", "B">>)

\* The proto qualifier format_definition_name puts before the inner name.
Qualifier(f, d) ==
    LET protos == ProtosOf(d.scope_stack)
    IN  IF Len(protos) > 1 /\ f.support
        THEN LocalName(protos[Len(protos)]) \o f.cross
        ELSE <<>>

\* C8: the case-style converter is applied to the definition's local name
\* before any joining; the ancestor names and the inner-proto delimiter are
\* not passed through it.
C8_CaseStyleBeforeJoin ==
    (NamedOne /\ EntryFor(nfmt, NameClass) # OtherEntry)
    => LET d == ndefs[1]
           entry == EntryFor(nfmt, NameClass)
           anc == InnerAncestors(nfmt, d)
       IN  nres[1] = Returned(Qualifier(nfmt, d)
                        \o Join(nfmt.inner,
                                [j \in 1..Len(anc) |-> LocalName(anc[j])]
                                    \o <<Styled(entry, LocalName(d))>>))

\* C8 as amended: the case-style converter is applied to the whole joined
\* inner-proto name, ancestor names and inner-proto delimiters included; only
\* the proto qualifier and the cross-proto delimiter are not passed through it.
C8_CaseStyleAfterJoin ==
    (NamedOne /\ EntryFor(nfmt, NameClass) \notin {OtherEntry, StrEntry("keep")})
    => LET d == ndefs[1]
           entry == EntryFor(nfmt, NameClass)
           q == Qualifier(nfmt, d)
       IN  /\ nres[1].exc = "none"
           /\ Len(nres[1].s) >= Len(q)
           /\ SubSeq(nres[1].s, 1, Len(q)) = q
           /\ SubSeq(nres[1].s, Len(q) + 1, Len(nres[1].s))
                  = Styled(entry, QualifiedName(nfmt, d))

\* C8 witness: message a inside message a of an imported Proto known as b,
\* with the upper style, is named b.A_A.
C8_Witness ==
    /\ NamedOne
    /\ EntryFor(nfmt, NameClass) = StrEntry("upper")
    /\ Len(ndefs[1].scope_stack) = 3
    /\ ndefs[1].scope_stack[2].kind = "Proto"
    /\ ndefs[1].scope_stack[3].kind = "Message"
    /\ nres[1] = Returned(<<"b", ".", "A", "_", "A">>)

\* d is declared inside message Scope2 inside message Scope1 of a Proto.
InTwoMessages(d) ==
    /\ Len(d.scope_stack) = 3
    /\ d.scope_stack[1].kind = "Proto"
    /\ d.scope_stack[2].kind = "Message"
    /\ d.scope_stack[3].kind = "Message"

\* C17: format_definition_name of renderer.py gives Scope1_Scope2_name for a
\* message, enum, alias or constant declared inside message Scope2 inside
\* message Scope1: the namespaces it joins are the scopes of d.scope_stack
\* selected by the class of each scope, not by the class of d.
C17_RendererScopedName ==
    (/\ npc = "done_renderer"
     /\ ndefs[1].kind \in {"Message", "Enum", "Alias", "Constant"}
     /\ InTwoMessages(ndefs[1]))
    => nres[1] = Returned(Join(nfmt.inner,
                               <<LocalName(ndefs[1].scope_stack[2]),
                                 LocalName(ndefs[1].scope_stack[3]),
                                 LocalName(ndefs[1])>>))

-----------------------------------------------------------------------------
(* Properties of format_case_style() and format_value() *)

StyleNames == {"keep", "snake", "upper", "pascal"}

\* A style name, a tuple of style names, or a callable.
ValidEntry(e) ==
    \/ e.t = "str" /\ e.names[1] \in StyleNames
    \/ e.t = "tuple" /\ \A j \in 1..Len(e.names) : e.names[j] \in StyleNames
    \/ e.t = "callable"

\* C9: format_case_style raises InternalError for every mapping entry that is
\* no style name, no tuple of style names and no callable; no such entry is
\* treated as the keep style.
C9_InvalidEntryRaises ==
    (/\ fpc = "done"
     /\ fop = "format_case_style"
     /\ ~ValidEntry(EntryFor(ffmt, fcls)))
    => fres = Raised("InternalError")

\* C10: format_value sends every boolean to the boolean-literal hook and never
\* to the integer-literal hook, every other integer to the integer-literal
\* hook and every string to the string-literal hook.
C10_BoolBeforeInt ==
    (fpc = "done" /\ fop = "format_value")
    => /\ fval.type = "bool" => fres = HookCall("format_bool_value", fval)
       /\ fval.type = "int" => fres = HookCall("format_int_value", fval)
       /\ fval.type = "str" => fres = HookCall("format_str_value", fval)

\* C10 witness: True, which equals the integer 1, went to the boolean hook.
C10_Witness ==
    /\ fpc = "done"
    /\ fop = "format_value"
    /\ fval = BoolValue(TRUE)
    /\ fval.int = 1
    /\ fres.hook = "format_bool_value"

\* The arguments inside the closed variant sets of the dispatch functions.
KnownType(t) ==
    t.variant \in {"Bool", "Byte", "Uint", "Int", "Array", "Enum", "Message", "Alias"}

KnownValue(v) == v.type \in {"bool", "int", "str"}

KnownConstant(c) ==
    c.variant \in {"BooleanConstant", "StringConstant", "IntegerConstant"}

\* C11: format_type, format_value and format_constant_type each raise
\* InternalError when the argument is outside the closed variant set; none of
\* them returns a placeholder string or nothing for an unrecognized variant.
C11_UnknownVariantRaises ==
    fpc = "done" =>
        /\ (fop \in {"format_type", "renderer_format_type"} /\ ~KnownType(ft))
               => fres = Raised("InternalError")
        /\ (fop = "format_value" /\ ~KnownValue(fval))
               => fres = Raised("InternalError")
        /\ (fop = "format_constant_type" /\ ~KnownConstant(fc))
               => fres = Raised("InternalError")

\* The width the table of integer widths gives for a byte count.
TableWidth(nbytes) ==
    CASE nbytes = 1 -> 8
      [] nbytes = 2 -> 16
      [] nbytes = 3 -> 32
      [] nbytes = 4 -> 32
      [] nbytes = 5 -> 64
      [] nbytes = 6 -> 64
      [] nbytes = 7 -> 64
      [] nbytes = 8 -> 64
      [] nbytes = 9 -> 72
      [] OTHER -> 0

\* C12: get_nbits_of_integer maps nbytes 1..9 to 8,16,32,32,64,64,64,64,72;
\* for 1 <= nbytes <= 8 the result is the smallest of 8, 16, 32 and 64 that is
\* at least 8*nbytes, and for every nbytes > 8 it is exactly 8*nbytes.
C12_NbitsTable ==
    (fpc = "done" /\ fop \in {"get_nbits_of_integer", "nbits_from_integer_type"})
    => LET nbytes == ft.nbytes
           fits == {w \in {8, 16, 32, 64} : w >= 8 * nbytes}
       IN  /\ fres.exc = "none"
           /\ nbytes \in 1..9 => fres.n = TableWidth(nbytes)
           /\ nbytes \in 1..8 =>
                  /\ fres.n \in fits
                  /\ \A w \in fits : fres.n <= w
           /\ nbytes > 8 => fres.n = 8 * nbytes

\* C12 witness: a five-byte Uint has been given 64 bits.
C12_Witness ==
    /\ fpc = "done"
    /\ fop = "get_nbits_of_integer"
    /\ ft = Type("Uint", 5)
    /\ fres = ReturnedInt(64)

-----------------------------------------------------------------------------
(* Properties of a Block *)

\* The line a logged call wrote, with the indent the block gave it.
WrittenLine(e) ==
    LET id == IF e.ident = None THEN blk.ident ELSE e.ident[1]
    IN  (IF id = 1 THEN <<" ">> ELSE <<>>) \o e.line

\* The lines the logged calls left in the buffer, in push order: a failed
\* call writes nothing, clear and collect empty the buffer, push_string and
\* push_location_doc extend the last line.
RECURSIVE LinesAfter(_)
LinesAfter(log) ==
    IF log = <<>> THEN <<>>
    ELSE LET e == log[Len(log)]
             before == LinesAfter(SubSeq(log, 1, Len(log) - 1))
             n == Len(before)
         IN  IF e.exc # "none" THEN before
             ELSE CASE e.op \in {"clear", "collect"} -> <<>>
                    [] e.op \in {"push", "push_empty_line"} ->
                          Append(before, WrittenLine(e))
                    [] e.op = "push_string" ->
                          [before EXCEPT ![n] = @ \o <<" ">> \o e.line]
                    [] e.op = "push_location_doc" ->
                          [before EXCEPT ![n] = @ \o <<" ", "#", "@", "@", "L", "7">>]
                    [] e.op = "render_doc" ->
                          before \o [j \in 1..Len(bdef.comment_block) |->
                                        WrittenLine([ident |-> None,
                                                     line |-> <<"#">> \o bdef.comment_block[j]])]
                    [] OTHER -> before

\* The calls logged before call j.
Before(j) == SubSeq(bops, 1, j - 1)

\* C13: after any sequence of push, push_string, push_empty_line and clear
\* calls, collect() returns the buffered lines in push order joined by
\* newlines and leaves the buffer empty, so a collect() right after a
\* collect() returns the empty string.
C13_CollectConsumesOnce ==
    /\ \A j \in 1..Len(bops) :
          bops[j].op = "collect" =>
              /\ bops[j].exc = "none"
              /\ bops[j].ret = Some(Join(NL, LinesAfter(Before(j))))
              /\ (j > 1 /\ bops[j - 1].op = "collect") => bops[j].ret = Some(<<>>)
    /\ (bops # <<>> /\ bops[Len(bops)].op = "collect") => blk.strings = <<>>

\* C13 witness: a push, a collect that returned the line and, right after
\* it, a collect that returned the empty string.
C13_Witness ==
    /\ Len(bops) = 3
    /\ bops[1].op = "push"
    /\ bops[2].op = "collect"
    /\ bops[2].ret = Some(<<"x">>)
    /\ bops[3].op = "collect"
    /\ bops[3].ret = Some(<<>>)
    /\ blk.strings = <<>>

\* C14: on a Block without a Formatter, push with any indent value (0
\* included), push_empty_line, render_doc and push_location_doc raise
\* InternalError, and the failed call buffers no line.
C14_UnattachedRaises ==
    (bops # <<>> /\ ~blk.formatter
       /\ bops[Len(bops)].op \in {"push", "push_empty_line", "render_doc",
                                   "push_location_doc"})
    => /\ bops[Len(bops)].exc = "InternalError"
       /\ blk.strings = LinesAfter(Before(Len(bops)))

====
